---- MODULE Spec2Model ----
\* Model of the chat route of unity-rag-bot (app/api/chat/route.ts): one POST
\* request driven through query expansion, concurrent hybrid search,
\* deduplication, reranking, context assembly and streamed generation.
\* Text values (question, model output, queries, passages, context) are
\* sequences of one-character strings; <<>> is the empty string.
EXTENDS Integers, Sequences, FiniteSets, TLC

\* ------------------------------------------------------------------ bounds

\* Hits in one hybrid_search response of the main specification.
MaxHits == 2
\* Distinct passage identifiers of the main specification.
NumIds == 2
\* Answer fragments one generation call streams at most.
MaxFragments == 2
\* Longest raw expansion output the expansion-only specification enumerates.
MaxRawLen == 7
\* Hits per response in the wide specification (disjoint identifiers per query).
WideHits == 3

\* ------------------------------------------------------- program constants

\* topN handed to cohereRerank.rerank.
TopN == 5
\* match_count handed to the hybrid_search RPC.
MatchCount == 10

\* --------------------------------------------------------------- text

Whitespace == {" ", "\n", "\r", "\t"}

RECURSIVE TrimStart(_)
TrimStart(s) ==
  IF s # <<>> /\ Head(s) \in Whitespace THEN TrimStart(Tail(s)) ELSE s

RECURSIVE TrimEnd(_)
TrimEnd(s) ==
  IF s # <<>> /\ s[Len(s)] \in Whitespace
  THEN TrimEnd(SubSeq(s, 1, Len(s) - 1))
  ELSE s

\* String.prototype.trim
Trim(s) == TrimEnd(TrimStart(s))

\* rawQueries.split('\n'): always at least one piece; "" splits to [""].
RECURSIVE SplitLines(_)
SplitLines(s) ==
  IF \E i \in 1..Len(s) : s[i] = "\n"
  THEN LET i == CHOOSE k \in 1..Len(s) :
                  s[k] = "\n" /\ \A j \in 1..(k - 1) : s[j] # "\n"
       IN  <<SubSeq(s, 1, i - 1)>> \o SplitLines(SubSeq(s, i + 1, Len(s)))
  ELSE <<s>>

KeepQuery(q) == Trim(q) # <<>>

\* rawQueries.split('\n').filter(q => q.trim() !== "")
ExpandQueries(raw) == SelectSeq(SplitLines(raw), KeepQuery)

\* Array.prototype.join
RECURSIVE Join(_, _)
Join(parts, sep) ==
  IF parts = <<>> THEN <<>>
  ELSE IF Len(parts) = 1 THEN parts[1]
  ELSE parts[1] \o sep \o Join(Tail(parts), sep)

Delimiter == <<"\n", "\n", "-", "-", "-", "\n", "\n">>

\* ------------------------------------------------------- request and config

EnvKeys ==
  {"OPENROUTER_API_KEY", "COHERE_API_KEY", "SUPABASE_URL", "SUPABASE_PRIVATE_KEY"}

\* A parsed request body: the messages field may be absent; a message is its
\* content.
Bodies ==
  { [hasMessages |-> FALSE, messages |-> <<>>],
    [hasMessages |-> TRUE,  messages |-> <<>>],
    [hasMessages |-> TRUE,  messages |-> << <<"a">> >>],
    [hasMessages |-> TRUE,  messages |-> << <<"a">>, <<"b">> >>] }

\* body.messages ?? []
Messages(b) == IF b.hasMessages THEN b.messages ELSE <<>>

NoResponse == [status |-> 0, error |-> ""]

ErrorResponse(msg) == [status |-> 500, error |-> msg]

StreamResponse == [status |-> 200, error |-> ""]

ConfigErrorNoCohereCheck(e) ==
  IF "OPENROUTER_API_KEY" \notin e THEN "Missing OpenRouter Key"
  ELSE IF "SUPABASE_URL" \notin e THEN "supabaseUrl is required."
  ELSE IF "SUPABASE_PRIVATE_KEY" \notin e THEN "supabaseKey is required."
  ELSE ""

\* The two explicit key checks, then createClient, which throws on a missing
\* URL or key; "" when nothing throws.
ConfigError(e) ==
  IF "OPENROUTER_API_KEY" \notin e THEN "Missing OpenRouter Key"
  ELSE IF "COHERE_API_KEY" \notin e THEN "Missing Cohere Key"
  ELSE IF "SUPABASE_URL" \notin e THEN "supabaseUrl is required."
  ELSE IF "SUPABASE_PRIVATE_KEY" \notin e THEN "supabaseKey is required."
  ELSE ""

\* ------------------------------------------------------------ search data

Ids == 1..NumIds

Contents == { <<"x">>, <<"y", "z">> }

\* A row of a hybrid_search response (metadata is carried along unread).
Hits == [id : Ids, content : Contents]

DistinctIds(r) == \A i, j \in 1..Len(r) : i # j => r[i].id # r[j].id

\* What the backend may answer to one query in the main specification.
Responses ==
  { r \in UNION { [1..k -> Hits] : k \in 0..MaxHits } :
      Len(r) <= MatchCount /\ DistinctIds(r) }

\* Wide specification: query i answers a prefix of its own WideHits identifiers.
WideResponses(i) ==
  { [k \in 1..m |-> [id |-> (i - 1) * WideHits + k, content |-> <<"x">>]] :
      m \in 0..WideHits }

PromiseAllCompletionOrder(res, ord) == [k \in 1..Len(ord) |-> res[ord[k]]]

\* Promise.all: the fulfilment values in the order of the promises passed in.
PromiseAll(res, ord) == [i \in 1..Len(ord) |-> res[i]]

\* results.flat()
RECURSIVE Flat(_)
Flat(rs) == IF rs = <<>> THEN <<>> ELSE Head(rs) \o Flat(Tail(rs))

HasId(docs, id) == \E k \in 1..Len(docs) : docs[k].id = id

NewDocument(doc) == [id |-> doc.id, pageContent |-> doc.content]

RECURSIVE UniqueDocsLastWins(_)
UniqueDocsLastWins(allDocs) ==
  IF allDocs = <<>> THEN <<>>
  ELSE LET n    == Len(allDocs)
           acc  == UniqueDocsLastWins(SubSeq(allDocs, 1, n - 1))
           doc  == allDocs[n]
       IN  IF HasId(acc, doc.id)
           THEN [k \in 1..Len(acc) |->
                   IF acc[k].id = doc.id THEN NewDocument(doc) ELSE acc[k]]
           ELSE Append(acc, NewDocument(doc))

\* The forEach over allDocs filling uniqueDocsMap, then Array.from(values()):
\* entries in insertion order, an identifier inserted only when not yet present.
RECURSIVE UniqueDocs(_)
UniqueDocs(allDocs) ==
  IF allDocs = <<>> THEN <<>>
  ELSE LET n    == Len(allDocs)
           acc  == UniqueDocs(SubSeq(allDocs, 1, n - 1))
           doc  == allDocs[n]
       IN  IF HasId(acc, doc.id) THEN acc ELSE Append(acc, NewDocument(doc))

Min(a, b) == IF a < b THEN a ELSE b

Range(f) == { f[k] : k \in 1..Len(f) }

\* The sequences of k distinct elements of S.
RECURSIVE DistinctSeqs(_, _)
DistinctSeqs(S, k) ==
  IF k = 0 THEN { <<>> }
  ELSE UNION { { Append(r, x) : x \in S \ Range(r) } : r \in DistinctSeqs(S, k - 1) }

\* What the reranking service may answer for n documents and a given topN:
\* distinct 0-based indices into the documents, at most topN of them.
RerankOutputs(n, topN) ==
  UNION { DistinctSeqs(0..(n - 1), k) : k \in 0..Min(n, topN) }

RerankRequestExpandedQuery(docs, q, qs) ==
  [docs |-> docs, query |-> IF qs = <<>> THEN q ELSE qs[1], topN |-> TopN]

RerankRequestMatchCount(docs, q, qs) ==
  [docs |-> docs, query |-> q, topN |-> MatchCount]

\* cohereRerank.rerank(uniqueDocs, currentMessageContent, { topN: 5 })
RerankRequest(docs, q, qs) == [docs |-> docs, query |-> q, topN |-> TopN]

PassagesInCandidateOrder(reranked, docs) ==
  [k \in 1..Len(reranked) |-> docs[k].pageContent]

\* reranked.map(r => uniqueDocs[r.index].pageContent)
Passages(reranked, docs) ==
  [k \in 1..Len(reranked) |-> docs[reranked[k] + 1].pageContent]

\* ------------------------------------------------------------------ state

VARIABLES
  pc,          \* position of the POST handler
  env,         \* environment variables that are set
  body,        \* the parsed request body
  question,    \* currentMessageContent
  expCalls,    \* queryChain.invoke calls made
  expArg,      \* question handed to the expansion prompt
  queries,     \* queries (rawQueries split and filtered)
  tpc,         \* per query: position of its search promise
  embedCalls,  \* per query: embedQuery calls made
  rpcCalls,    \* per query: hybrid_search RPC calls made
  rpcError,    \* per query: the RPC answered { data: null, error }
  taskResult,  \* per query: value its promise fulfilled with (data || []),
               \* held until advancedRetriever returns
  order,       \* indices of the search promises in settlement order
  allDocs,     \* results.flat(), held until advancedRetriever returns
  uniqueDocs,  \* Array.from(uniqueDocsMap.values())
  rerankCalls, \* cohereRerank.rerank calls made
  rerankArg,   \* arguments of the rerank call
  reranked,    \* the reranker's answer: 0-based indices into uniqueDocs
  passages,    \* page contents selected by the reranker, in its order
  context,     \* value of the context field of the generation prompt
  genCalls,    \* generation model calls made
  genArg,      \* question and context of the generation prompt
  fragments,   \* answer fragments emitted so far
  response,    \* what the caller has received
  raised       \* the remote calls that have rejected so far

vars ==
  << pc, env, body, question, expCalls, expArg, queries, tpc, embedCalls,
     rpcCalls, rpcError, taskResult, order, allDocs, uniqueDocs, rerankCalls,
     rerankArg, reranked, passages, context, genCalls, genArg, fragments, response,
     raised >>

requestVars == << env, body >>
expansionVars == << expCalls, expArg, queries >>
taskCtl == << tpc, embedCalls, rpcCalls, rpcError, order >>
taskVars == << taskCtl, taskResult >>
aggregationVars == << allDocs, uniqueDocs >>
rerankVars == << rerankCalls, rerankArg, reranked, passages >>
generationVars == << context, genCalls, genArg, fragments >>

NoRerankArg == [docs |-> <<>>, query |-> <<>>, topN |-> 0]

NoGenArg == [question |-> <<>>, context |-> <<>>]

Blank ==
  /\ pc = "received"
  /\ question = <<>>
  /\ expCalls = 0
  /\ expArg = <<>>
  /\ queries = <<>>
  /\ tpc = <<>>
  /\ embedCalls = <<>>
  /\ rpcCalls = <<>>
  /\ rpcError = <<>>
  /\ taskResult = <<>>
  /\ order = <<>>
  /\ allDocs = <<>>
  /\ uniqueDocs = <<>>
  /\ rerankCalls = 0
  /\ rerankArg = NoRerankArg
  /\ reranked = <<>>
  /\ passages = <<>>
  /\ context = <<>>
  /\ genCalls = 0
  /\ genArg = NoGenArg
  /\ fragments = 0
  /\ response = NoResponse
  /\ raised = {}

\* A request arrives: any body, any subset of the environment configured.
Init ==
  /\ env \in SUBSET EnvKeys
  /\ body \in Bodies
  /\ Blank

\* messages[messages.length - 1].content, where there is a latest message.
LastContent == Messages(body)[Len(Messages(body))]

\* catch (e): respond 500 with e.message.
Catch(msg) ==
  /\ pc' = "failed"
  /\ response' = ErrorResponse(msg)

ParseRequestOptionalContent ==
  /\ UNCHANGED raised
  /\ pc = "received"
  /\ question' = IF Len(Messages(body)) = 0 THEN <<>> ELSE LastContent
  /\ pc' = "parsed"
  /\ UNCHANGED response
  /\ UNCHANGED << requestVars, expansionVars, taskVars, aggregationVars,
                  rerankVars, generationVars >>

\* const messages = body.messages ?? []; messages[messages.length - 1].content
ParseRequest ==
  /\ UNCHANGED raised
  /\ pc = "received"
  /\ IF Len(Messages(body)) = 0
     THEN /\ Catch("Cannot read properties of undefined (reading 'content')")
          /\ UNCHANGED question
     ELSE /\ question' = LastContent
          /\ pc' = "parsed"
          /\ UNCHANGED response
  /\ UNCHANGED << requestVars, expansionVars, taskVars, aggregationVars,
                  rerankVars, generationVars >>

\* Key checks and construction of the clients.
ClientSetup ==
  /\ UNCHANGED raised
  /\ pc = "parsed"
  /\ IF ConfigError(env) # ""
     THEN Catch(ConfigError(env))
     ELSE pc' = "configured" /\ UNCHANGED response
  /\ UNCHANGED << requestVars, question, expansionVars, taskVars,
                  aggregationVars, rerankVars, generationVars >>

\* The question bound to {question} of the query-generation prompt.
ExpansionQuestion(q) == q

\* queryChain.invoke({ question: currentMessageContent }) is issued.
InvokeQueryChain ==
  /\ UNCHANGED raised
  /\ pc = "configured"
  /\ pc' = "expanding"
  /\ expCalls' = expCalls + 1
  /\ expArg' = ExpansionQuestion(question)
  /\ UNCHANGED << requestVars, question, queries, taskVars, aggregationVars,
                  rerankVars, generationVars, response >>

\* The expansion model answers raw; the handler splits and filters it.
ExpansionReturns(raw) ==
  /\ UNCHANGED raised
  /\ pc = "expanding"
  /\ pc' = "expanded"
  /\ queries' = ExpandQueries(raw)
  /\ UNCHANGED << requestVars, question, expCalls, expArg, taskVars,
                  aggregationVars, rerankVars, generationVars, response >>

\* The expansion call rejects.
ExpansionThrows ==
  /\ raised' = raised \cup {"expansion"}
  /\ pc = "expanding"
  /\ Catch("expansion failed")
  /\ UNCHANGED << requestVars, question, expansionVars, taskVars,
                  aggregationVars, rerankVars, generationVars >>

\* chain.stream runs advancedRetriever, which runs multiQueryRetriever:
\* queries.map starts one async search per query, each up to its embedQuery call.
StartRetrieval ==
  /\ UNCHANGED raised
  /\ pc = "expanded"
  /\ pc' = "retrieving"
  /\ tpc' = [i \in 1..Len(queries) |-> "embedding"]
  /\ embedCalls' = [i \in 1..Len(queries) |-> 1]
  /\ rpcCalls' = [i \in 1..Len(queries) |-> 0]
  /\ rpcError' = [i \in 1..Len(queries) |-> FALSE]
  /\ taskResult' = [i \in 1..Len(queries) |-> <<>>]
  /\ UNCHANGED << requestVars, question, expansionVars, order, aggregationVars,
                  rerankVars, generationVars, response >>

\* A search promise rejects: Promise.all rejects with it, and a handler still
\* awaiting the batch ends in its catch.
Reject(i, msg) ==
  /\ tpc' = [tpc EXCEPT ![i] = "rejected"]
  /\ order' = Append(order, i)
  /\ IF pc = "retrieving" THEN Catch(msg) ELSE UNCHANGED << pc, response >>

\* embedQuery(q) answers; the task issues the hybrid_search RPC.
EmbedReturns(i) ==
  /\ UNCHANGED raised
  /\ i \in DOMAIN tpc
  /\ tpc[i] = "embedding"
  /\ tpc' = [tpc EXCEPT ![i] = "searching"]
  /\ rpcCalls' = [rpcCalls EXCEPT ![i] = @ + 1]
  /\ UNCHANGED << pc, requestVars, question, expansionVars, embedCalls,
                  rpcError, taskResult, order, aggregationVars, rerankVars,
                  generationVars, response >>

\* embedQuery(q) rejects.
EmbedThrows(i) ==
  /\ raised' = raised \cup {"embedding"}
  /\ i \in DOMAIN tpc
  /\ tpc[i] = "embedding"
  /\ Reject(i, "embedding failed")
  /\ UNCHANGED << requestVars, question, expansionVars, embedCalls, rpcCalls,
                  rpcError, taskResult, aggregationVars, rerankVars,
                  generationVars >>

DataOrEmpty(data, failed) == IF failed THEN <<>> ELSE data

\* The RPC answers { data, error: null }; the task fulfils with data.
RpcReturns(i, data) ==
  /\ UNCHANGED raised
  /\ i \in DOMAIN tpc
  /\ tpc[i] = "searching"
  /\ tpc' = [tpc EXCEPT ![i] = "fulfilled"]
  /\ taskResult' = [taskResult EXCEPT ![i] = DataOrEmpty(data, FALSE)]
  /\ order' = Append(order, i)
  /\ UNCHANGED << pc, requestVars, question, expansionVars, embedCalls,
                  rpcCalls, rpcError, aggregationVars, rerankVars,
                  generationVars, response >>

\* The RPC answers { data: null, error }: only data is read, so the task
\* fulfils with [].
RpcReportsError(i) ==
  /\ UNCHANGED raised
  /\ i \in DOMAIN tpc
  /\ tpc[i] = "searching"
  /\ tpc' = [tpc EXCEPT ![i] = "fulfilled"]
  /\ rpcError' = [rpcError EXCEPT ![i] = TRUE]
  /\ taskResult' = [taskResult EXCEPT ![i] = DataOrEmpty(<<>>, TRUE)]
  /\ order' = Append(order, i)
  /\ UNCHANGED << pc, requestVars, question, expansionVars, embedCalls,
                  rpcCalls, aggregationVars, rerankVars, generationVars,
                  response >>

\* The awaited RPC itself rejects.
RpcThrows(i) ==
  /\ raised' = raised \cup {"search"}
  /\ i \in DOMAIN tpc
  /\ tpc[i] = "searching"
  /\ Reject(i, "search failed")
  /\ UNCHANGED << requestVars, question, expansionVars, embedCalls, rpcCalls,
                  rpcError, taskResult, aggregationVars, rerankVars,
                  generationVars >>

\* The map feeding answerPrompt: context from advancedRetriever, question the
\* input of chain.stream (currentMessageContent).
GenerationInput(q, ctx, qs) == [question |-> q, context |-> ctx]

\* advancedRetriever returned ctx, which ends the life of the search results;
\* the prompt is rendered and the generation model is called in streaming mode.
StartGeneration(ctx) ==
  /\ pc' = "generating"
  /\ taskResult' = [i \in DOMAIN taskResult |-> <<>>]
  /\ allDocs' = <<>>
  /\ context' = ctx
  /\ genCalls' = genCalls + 1
  /\ genArg' = GenerationInput(question, ctx, queries)
  /\ UNCHANGED fragments

AlwaysRerank(docs) == TRUE

\* uniqueDocs.length === 0 returns "" before the reranker is reached.
ShouldRerank(docs) == Len(docs) # 0

BatchFirstFulfilled == \E i \in DOMAIN tpc : tpc[i] = "fulfilled"

\* await Promise.all(searchPromises) resumes once every promise is fulfilled.
BatchFulfilled == \A i \in DOMAIN tpc : tpc[i] = "fulfilled"

\* Every search promise fulfilled: Promise.all resolves, the results are
\* flattened and deduplicated, and the reranker is called unless nothing
\* was found.
FanIn ==
  /\ UNCHANGED raised
  /\ pc = "retrieving"
  /\ BatchFulfilled
  /\ LET docs   == Flat(PromiseAll(taskResult, order))
         unique == UniqueDocs(docs)
     IN  /\ uniqueDocs' = unique
         /\ IF ShouldRerank(unique)
            THEN /\ pc' = "reranking"
                 /\ allDocs' = docs
                 /\ rerankCalls' = rerankCalls + 1
                 /\ rerankArg' = RerankRequest(unique, question, queries)
                 /\ UNCHANGED << taskResult, reranked, passages, generationVars >>
            ELSE /\ StartGeneration(<<>>)
                 /\ UNCHANGED rerankVars
  /\ UNCHANGED << requestVars, question, expansionVars, taskCtl, response >>

\* The reranker answers r; the selected page contents are joined into the
\* context.
RerankReturns(r) ==
  /\ UNCHANGED raised
  /\ pc = "reranking"
  /\ reranked' = r
  /\ passages' = Passages(r, uniqueDocs)
  /\ StartGeneration(Join(Passages(r, uniqueDocs), Delimiter))
  /\ UNCHANGED << requestVars, question, expansionVars, taskCtl,
                  uniqueDocs, rerankCalls, rerankArg, response >>

\* The reranker answers the request it was sent.
RerankAnswers ==
  /\ pc = "reranking"
  /\ \E r \in RerankOutputs(Len(rerankArg.docs), rerankArg.topN) : RerankReturns(r)

RerankThrowsSkipsRerank ==
  /\ raised' = raised \cup {"rerank"}
  /\ pc = "reranking"
  /\ StartGeneration(Join([k \in 1..Len(uniqueDocs) |-> uniqueDocs[k].pageContent],
                          Delimiter))
  /\ UNCHANGED << requestVars, question, expansionVars, taskCtl, uniqueDocs,
                  rerankVars, response >>

\* The rerank call rejects.
RerankThrows ==
  /\ raised' = raised \cup {"rerank"}
  /\ pc = "reranking"
  /\ Catch("rerank failed")
  /\ UNCHANGED << requestVars, question, expansionVars, taskVars,
                  aggregationVars, rerankVars, generationVars >>

\* The generation model produces a fragment; the first one resolves
\* chain.stream and the streaming response is returned.
GenFragment ==
  /\ UNCHANGED raised
  /\ pc \in {"generating", "streaming"}
  /\ fragments < MaxFragments
  /\ fragments' = fragments + 1
  /\ pc' = "streaming"
  /\ response' = StreamResponse
  /\ UNCHANGED << requestVars, question, expansionVars, taskVars,
                  aggregationVars, rerankVars, context, genCalls, genArg >>

\* The generation model ends its answer.
GenEnds ==
  /\ UNCHANGED raised
  /\ pc \in {"generating", "streaming"}
  /\ pc' = "completed"
  /\ response' = StreamResponse
  /\ UNCHANGED << requestVars, question, expansionVars, taskVars,
                  aggregationVars, rerankVars, generationVars >>

\* The generation call rejects: before the first fragment the handler's catch
\* answers 500; afterwards the response is already under way.
GenThrows ==
  /\ raised' = raised \cup {"generation"}
  /\ pc \in {"generating", "streaming"}
  /\ IF pc = "generating"
     THEN Catch("generation failed")
     ELSE pc' = "stream_error" /\ UNCHANGED response
  /\ UNCHANGED << requestVars, question, expansionVars, taskVars,
                  aggregationVars, rerankVars, generationVars >>

\* ----------------------------------------------------------- specifications

\* Outputs of the expansion model tried in the main specification: no line,
\* one line, and two indented lines around a blank one. Every other output is
\* left to the expansion-only specification.
ExpansionOutputs ==
  { <<>>,
    <<"a">>,
    <<" ", "b", "\r", "\n", "\n", "a", " ">> }

Next ==
  \/ ParseRequest
  \/ ClientSetup
  \/ InvokeQueryChain
  \/ \E raw \in ExpansionOutputs : ExpansionReturns(raw)
  \/ ExpansionThrows
  \/ StartRetrieval
  \/ \E i \in DOMAIN tpc : EmbedReturns(i)
  \/ \E i \in DOMAIN tpc : EmbedThrows(i)
  \/ \E i \in DOMAIN tpc : \E data \in Responses : RpcReturns(i, data)
  \/ \E i \in DOMAIN tpc : RpcReportsError(i)
  \/ \E i \in DOMAIN tpc : RpcThrows(i)
  \/ FanIn
  \/ RerankAnswers
  \/ RerankThrows
  \/ GenFragment
  \/ GenEnds
  \/ GenThrows

Spec == Init /\ [][Next]_vars

\* Expansion only: the handler awaits the expansion model, which may answer
\* any text over RawAlphabet of at most MaxRawLen characters.
RawAlphabet == {"a", " ", "\n", "\r"}

RawOutputs == UNION { [1..k -> RawAlphabet] : k \in 0..MaxRawLen }

InitExpand ==
  /\ env = EnvKeys
  /\ body = [hasMessages |-> TRUE, messages |-> << <<"a">> >>]
  /\ pc = "expanding"
  /\ question = <<"a">>
  /\ expCalls = 1
  /\ expArg = <<"a">>
  /\ queries = <<>>
  /\ tpc = <<>>
  /\ embedCalls = <<>>
  /\ rpcCalls = <<>>
  /\ rpcError = <<>>
  /\ taskResult = <<>>
  /\ order = <<>>
  /\ allDocs = <<>>
  /\ uniqueDocs = <<>>
  /\ rerankCalls = 0
  /\ rerankArg = NoRerankArg
  /\ reranked = <<>>
  /\ passages = <<>>
  /\ context = <<>>
  /\ genCalls = 0
  /\ genArg = NoGenArg
  /\ fragments = 0
  /\ response = NoResponse
  /\ raised = {}

NextExpand ==
  \/ \E raw \in RawOutputs : ExpansionReturns(raw)
  \/ StartRetrieval

SpecExpand == InitExpand /\ [][NextExpand]_vars

\* Wide retrieval: a configured request whose two queries are answered with
\* disjoint identifiers, so that the candidate set can outgrow TopN; every
\* remote call succeeds, and the run is followed up to the generation call.
WideOutputs == { <<"b", "\n", "a">> }

InitWide ==
  /\ env = EnvKeys
  /\ body = [hasMessages |-> TRUE, messages |-> << <<"a">> >>]
  /\ Blank

NextWide ==
  \/ ParseRequest
  \/ ClientSetup
  \/ InvokeQueryChain
  \/ \E raw \in WideOutputs : ExpansionReturns(raw)
  \/ StartRetrieval
  \/ \E i \in DOMAIN tpc : EmbedReturns(i)
  \/ \E i \in DOMAIN tpc : \E data \in WideResponses(i) : RpcReturns(i, data)
  \/ FanIn
  \/ RerankAnswers

SpecWide == InitWide /\ [][NextWide]_vars

\* ------------------------------------------------------------------ claims

FirstIndexOf(docs, id) ==
  CHOOSE j \in 1..Len(docs) :
    docs[j].id = id /\ \A h \in 1..(j - 1) : docs[h].id # id

\* C1: while the deduplicated documents are held next to the flattened hit
\* list they were built from, every hit identifier of the list occurs in
\* exactly one document, no document has an identifier the list lacks, and
\* each document carries the content of the first hit of the list with its
\* identifier.
C1_FirstOccurrenceKept ==
  pc = "reranking" =>
    /\ \A j \in 1..Len(allDocs) :
         Cardinality({ k \in 1..Len(uniqueDocs) : uniqueDocs[k].id = allDocs[j].id }) = 1
    /\ \A k \in 1..Len(uniqueDocs) :
         /\ \E j \in 1..Len(allDocs) : allDocs[j].id = uniqueDocs[k].id
         /\ uniqueDocs[k].pageContent =
              allDocs[FirstIndexOf(allDocs, uniqueDocs[k].id)].content

\* C1 witness: deduplication has run on a list in which a later hit repeats
\* an identifier with another content.
C1_Witness ==
  /\ pc = "reranking"
  /\ \E i, j \in 1..Len(allDocs) :
       i < j /\ allDocs[i].id = allDocs[j].id /\ allDocs[i].content # allDocs[j].content

\* C2: once the embedding call or the search call of some query has failed
\* (the RPC reporting an error included), neither the reranker nor the
\* generation model is ever called and the caller gets no streamed answer.
C2_RetrievalFailureFailsRequest ==
  (\E i \in DOMAIN tpc : tpc[i] = "rejected" \/ rpcError[i]) =>
    /\ rerankCalls = 0
    /\ genCalls = 0
    /\ response.status # 200

\* C3: the query list made from any output of the expansion model has one to
\* three elements, none of them empty or made of whitespace only.
C3_OneToThreeQueries ==
  pc \in {"expanded", "retrieving"} =>
    /\ Len(queries) >= 1
    /\ Len(queries) <= 3
    /\ \A i \in 1..Len(queries) : \E k \in 1..Len(queries[i]) :
         queries[i][k] \notin Whitespace

PreAnswerCalls == {"expansion", "embedding", "search", "rerank"}

MessageOf(call) ==
  CASE call = "expansion" -> "expansion failed"
    [] call = "embedding" -> "embedding failed"
    [] call = "search"    -> "search failed"
    [] call = "rerank"    -> "rerank failed"
    [] OTHER              -> "generation failed"

\* C4: no remote call is issued twice; and once the expansion, an embedding,
\* a search or the rerank call has rejected, the request is Failed with a 500
\* response carrying the message of such a call, no fragment has been emitted,
\* and no call of a later stage has been made: nothing is searched after a
\* failed expansion, nothing is reranked or generated after a failed
\* retrieval, nothing is generated after a failed rerank.
C4_FailFast ==
  /\ expCalls <= 1
  /\ rerankCalls <= 1
  /\ genCalls <= 1
  /\ \A i \in DOMAIN tpc : embedCalls[i] <= 1 /\ rpcCalls[i] <= 1
  /\ (raised \cap PreAnswerCalls # {}) =>
       /\ pc = "failed"
       /\ response.status = 500
       /\ \E c \in raised \cap PreAnswerCalls : response.error = MessageOf(c)
       /\ fragments = 0
       /\ genCalls = 0
       /\ "expansion" \in raised => tpc = <<>> /\ rerankCalls = 0
       /\ raised \cap {"embedding", "search"} # {} => rerankCalls = 0

\* C4 witness: the rerank call rejected after a complete retrieval.
C4_Witness ==
  /\ raised = {"rerank"}
  /\ pc = "failed"
  /\ Len(uniqueDocs) = 2

\* C4 second witness: an embedding call rejected while another query's search
\* was still running.
C4_WitnessEmbedding ==
  /\ "embedding" \in raised
  /\ pc = "failed"
  /\ \E i \in DOMAIN tpc : tpc[i] = "searching"

EmptyCandidatePath == uniqueDocs = <<>> /\ (genCalls > 0 \/ rerankCalls > 0)

\* C5: when retrieval has ended with an empty candidate set, the reranker has
\* not been called, the generation model has been called exactly once, with
\* the empty context and the original question, and the request is Failed
\* only if that generation call itself rejected.
C5_EmptyCandidates ==
  EmptyCandidatePath =>
    /\ rerankCalls = 0
    /\ context = <<>>
    /\ genCalls = 1
    /\ genArg = [question |-> LastContent, context |-> <<>>]
    /\ pc = "failed" => raised = {"generation"}

\* C5 witness: two queries, both answered without hits, and the answer was
\* streamed to its end.
C5_Witness ==
  /\ EmptyCandidatePath
  /\ Len(queries) = 2
  /\ \A i \in DOMAIN rpcError : ~rpcError[i]
  /\ pc = "completed"
  /\ fragments > 0

\* C6: the reranker is asked for 5 entries, and the passages placed in the
\* context are as many as the entries it returned, at most 5 and at most the
\* size of the candidate set.
C6_TopKBound ==
  /\ rerankCalls > 0 => rerankArg.topN = 5 /\ rerankArg.docs = uniqueDocs
  /\ pc = "generating" =>
       /\ Len(passages) = Len(reranked)
       /\ Len(passages) <= 5
       /\ Len(passages) <= Len(uniqueDocs)
       /\ context = Join(passages, Delimiter)

\* C6 witness: more than 5 candidates, 5 entries returned, 5 passages.
C6_Witness ==
  /\ pc = "generating"
  /\ Len(uniqueDocs) > 5
  /\ Len(reranked) = 5
  /\ Len(passages) = 5

\* C6 second witness: fewer than 5 candidates, all of them returned.
C6_WitnessFew ==
  /\ pc = "generating"
  /\ Len(uniqueDocs) = 2
  /\ Len(passages) = 2

\* C7: the question handed to the expansion prompt, the query handed to the
\* reranker and the question handed to the generation prompt are all the
\* content of the latest message of the request, which the question variable
\* holds unchanged from parsing on.
C7_OriginalQuestion ==
  /\ expCalls > 0 => question = LastContent /\ expArg = LastContent
  /\ rerankCalls > 0 => rerankArg.query = LastContent
  /\ genCalls > 0 => genArg.question = LastContent

\* C7 witness: reranker and generation model were both called in a request
\* none of whose expanded queries equals the question.
C7_Witness ==
  /\ rerankCalls > 0
  /\ genCalls > 0
  /\ Len(queries) > 0
  /\ \A i \in 1..Len(queries) : queries[i] # question

\* C9: with any of the four settings missing, no remote call is ever made,
\* the handler gets no further than client setup, and a body with a latest
\* message ends in a 500 response carrying a configuration message.
C9_ConfigurationError ==
  env # EnvKeys =>
    /\ expCalls = 0
    /\ tpc = <<>>
    /\ rerankCalls = 0
    /\ genCalls = 0
    /\ fragments = 0
    /\ pc \in {"received", "parsed", "failed"}
    /\ pc = "failed" =>
         /\ response.status = 500
         /\ Len(Messages(body)) > 0 =>
              response.error \in
                { "Missing OpenRouter Key", "Missing Cohere Key",
                  "supabaseUrl is required.", "supabaseKey is required." }

\* C9 witness: only the Supabase private key is missing and the request has
\* been answered with the error.
C9_Witness ==
  /\ env = EnvKeys \ {"SUPABASE_PRIVATE_KEY"}
  /\ pc = "failed"
  /\ response = ErrorResponse("supabaseKey is required.")

RECURSIVE InIndexOrder(_, _)
InIndexOrder(res, n) ==
  IF n = 0 THEN <<>> ELSE InIndexOrder(res, n - 1) \o res[n]

\* C10: the list handed to deduplication is the queries' results in query
\* order, whatever the order in which the searches completed, and the
\* candidate set is the deduplication of that list.
C10_IndexStableFanIn ==
  pc = "reranking" =>
    /\ allDocs = InIndexOrder(taskResult, Len(queries))
    /\ uniqueDocs = UniqueDocs(InIndexOrder(taskResult, Len(queries)))

\* C10 witness: the second query's search completed first, and the two
\* results share an identifier with different contents.
C10_Witness ==
  /\ pc = "reranking"
  /\ order = <<2, 1>>
  /\ \E h \in 1..Len(taskResult[1]) : \E k \in 1..Len(taskResult[2]) :
       /\ taskResult[1][h].id = taskResult[2][k].id
       /\ taskResult[1][h].content # taskResult[2][k].content

BeforeExpansionReturned == {"received", "parsed", "configured", "expanding"}

\* C11: a search call (embedding or RPC) has been issued only if the expansion
\* call was made and has returned; the reranker has been called only if every
\* search of the request has completed; and the generation model has been
\* called only if every search has completed and either the candidate set is
\* empty and no rerank was made, or the reranker has answered and the context
\* is the one assembled from its answer.
C11_StageOrder ==
  /\ tpc # <<>> =>
       /\ expCalls = 1
       /\ pc \notin BeforeExpansionReturned
       /\ "expansion" \notin raised
       /\ DOMAIN tpc = 1..Len(queries)
  /\ \A i \in DOMAIN tpc : rpcCalls[i] > 0 => embedCalls[i] > 0 /\ tpc[i] # "embedding"
  /\ rerankCalls > 0 =>
       /\ pc \notin BeforeExpansionReturned \cup {"expanded", "retrieving"}
       /\ DOMAIN tpc = 1..Len(queries)
       /\ \A i \in DOMAIN tpc : tpc[i] = "fulfilled"
  /\ genCalls > 0 =>
       /\ pc \notin BeforeExpansionReturned \cup {"expanded", "retrieving", "reranking"}
       /\ \A i \in DOMAIN tpc : tpc[i] = "fulfilled"
       /\ \/ rerankCalls = 0 /\ uniqueDocs = <<>> /\ genArg.context = <<>>
          \/ /\ rerankCalls = 1
             /\ "rerank" \notin raised
             /\ genArg.context = Join(Passages(reranked, uniqueDocs), Delimiter)
  /\ fragments > 0 => genCalls > 0

\* C11 witness: two searches completed out of query order, the reranker
\* answered, and the generation model streamed its answer to the end.
C11_Witness ==
  /\ pc = "completed"
  /\ order = <<2, 1>>
  /\ rerankCalls = 1
  /\ Len(reranked) = 2
  /\ genCalls = 1
  /\ fragments > 0

\* The text of the candidate the k-th entry of the reranker's answer points at.
RankedText(k) == uniqueDocs[reranked[k] + 1].pageContent

\* Where the k-th passage starts in a context that holds the passages before
\* it whole, each followed by one delimiter.
RECURSIVE PassageOffset(_)
PassageOffset(k) ==
  IF k = 1 THEN 0
  ELSE PassageOffset(k - 1) + Len(RankedText(k - 1)) + Len(Delimiter)

\* C12: when the reranker has answered k >= 1 entries, the context handed to
\* generation consists of the k candidate texts the entries point at, whole
\* and in the reranker's order, the j-th followed by one delimiter for each
\* j < k, and of nothing else.
C12_ContextAssembly ==
  (genCalls > 0 /\ Len(reranked) >= 1) =>
    LET k == Len(reranked) IN
    /\ Len(genArg.context) = PassageOffset(k) + Len(RankedText(k))
    /\ \A j \in 1..k :
         SubSeq(genArg.context, PassageOffset(j) + 1,
                PassageOffset(j) + Len(RankedText(j))) = RankedText(j)
    /\ \A j \in 1..(k - 1) :
         SubSeq(genArg.context, PassageOffset(j) + Len(RankedText(j)) + 1,
                PassageOffset(j + 1)) = <<"\n", "\n", "-", "-", "-", "\n", "\n">>

\* C12 witness: two candidates with different texts, returned by the reranker
\* in the reverse of candidate order, and the context built from them.
C12_Witness ==
  /\ genCalls > 0
  /\ reranked = <<1, 0>>
  /\ uniqueDocs[1].pageContent # uniqueDocs[2].pageContent
  /\ genArg.context = uniqueDocs[2].pageContent \o Delimiter \o uniqueDocs[1].pageContent

\* C13: every query handed to the search stage equals its own trimmed form:
\* it neither starts nor ends with a whitespace character.
C13_QueriesTrimmed ==
  pc = "retrieving" =>
    \A i \in 1..Len(queries) :
      /\ queries[i] = Trim(queries[i])
      /\ queries[i][1] \notin Whitespace
      /\ queries[i][Len(queries[i])] \notin Whitespace

\* C14: a request without a messages field, or with an empty messages list,
\* makes no remote call at all and gets no further than request parsing; once
\* answered, its response is a 500 carrying an error message.
C14_NoLatestMessage ==
  Len(Messages(body)) = 0 =>
    /\ pc \in {"received", "failed"}
    /\ question = <<>>
    /\ expCalls = 0
    /\ tpc = <<>>
    /\ rerankCalls = 0
    /\ genCalls = 0
    /\ fragments = 0
    /\ pc = "failed" => response.status = 500 /\ response.error # ""
    /\ pc = "received" => response = NoResponse

\* C14 witness: a fully configured request without a messages field has been
\* answered with the error.
C14_Witness ==
  /\ ~body.hasMessages
  /\ env = EnvKeys
  /\ pc = "failed"
  /\ response.status = 500

\* C14 second witness: the same for an empty messages list.
C14_WitnessEmptyList ==
  /\ body.hasMessages
  /\ body.messages = <<>>
  /\ env = EnvKeys
  /\ pc = "failed"
  /\ response.status = 500

====
